---- MODULE Spec2Model ----
(***************************************************************************)
(* Model of the time-series analysis engine of src/data_analysis.py:       *)
(* perform_trend_analysis, detect_patterns and predict_future_values.      *)
(*                                                                         *)
(* A table (pandas DataFrame) is a record [index, cols]; a cell of a       *)
(* numeric column is an exact rational <<num, den>> with den > 0, the      *)
(* missing value NaN is <<0, 0>>, a string cell is <<0, -1>>.  Rounding is *)
(* not modelled: a value is the real number the code's expression denotes. *)
(* Timestamps are integers counted in half days, so that the daily         *)
(* fallback frequency 'D' is a step of DayStep = 2 units.                  *)
(***************************************************************************)
EXTENDS Integers, Sequences, FiniteSets, TLC

VARIABLES data, column, date_col, periods, op, outcome, frame, patterns, calls

vars == <<data, column, date_col, periods, op, outcome, frame, patterns, calls>>

(***************************************************************************)
(* Bounds of the model.                                                    *)
(***************************************************************************)
MaxLen == 3
MaxVal == 2
MaxNeg == 1
MaxStep == 2
MaxPeriods == 2
MaxCycles == 5
MaxAmp == 2
MaxSlope == 1

(***************************************************************************)
(* Exact rational arithmetic standing for float64 arithmetic.              *)
(***************************************************************************)
Abs(a) == IF a < 0 THEN -a ELSE a

RECURSIVE Gcd(_, _)
Gcd(a, b) == IF b = 0 THEN Abs(a) ELSE Gcd(b, a % b)

NaN == <<0, 0>>

IsNaN(r) == r[2] = 0

Rat(n, d) ==
  IF d = 0 THEN NaN
  ELSE LET g == Gcd(Abs(n), Abs(d))
           s == IF d < 0 THEN -1 ELSE 1
       IN <<s * (n \div g), s * (d \div g)>>

FromInt(n) == <<n, 1>>

RAdd(a, b) ==
  IF IsNaN(a) \/ IsNaN(b) THEN NaN
  ELSE LET g == Gcd(a[2], b[2])
       IN Rat(a[1] * (b[2] \div g) + b[1] * (a[2] \div g), (a[2] \div g) * b[2])

RNeg(a) == IF IsNaN(a) THEN NaN ELSE <<-a[1], a[2]>>

RSub(a, b) == RAdd(a, RNeg(b))

RMul(a, b) ==
  IF IsNaN(a) \/ IsNaN(b) THEN NaN
  ELSE LET g1 == Gcd(Abs(a[1]), b[2])
           g2 == Gcd(Abs(b[1]), a[2])
       IN Rat((a[1] \div g1) * (b[1] \div g2), (a[2] \div g2) * (b[2] \div g1))

\* A division whose zero divisor yields 0.
RDiv_ZeroQuotient(a, b) ==
  IF IsNaN(a) \/ IsNaN(b) THEN NaN
  ELSE IF b[1] = 0 THEN FromInt(0)
  ELSE RMul(a, Rat(b[2], b[1]))

\* a / b; a zero divisor gives inf or nan in float64, neither of which
\* compares below or above anything the code compares it with: both are NaN here.
RDiv(a, b) ==
  IF IsNaN(a) \/ IsNaN(b) \/ b[1] = 0 THEN NaN
  ELSE RMul(a, Rat(b[2], b[1]))

RAbs(a) == IF IsNaN(a) THEN NaN ELSE <<Abs(a[1]), a[2]>>

\* Comparisons involving NaN are false, as in IEEE 754.
RLt(a, b) == ~IsNaN(a) /\ ~IsNaN(b) /\ a[1] * b[2] < b[1] * a[2]

RLe(a, b) == ~IsNaN(a) /\ ~IsNaN(b) /\ a[1] * b[2] <= b[1] * a[2]

RGt(a, b) == RLt(b, a)

RMin(a, b) == IF RLt(b, a) THEN b ELSE a

(***************************************************************************)
(* Unbounded naturals, as little-endian sequences of base-10000 limbs with *)
(* no leading zero limb (zero is <<>>): the sums of squares of the         *)
(* regression exceed the 32-bit integers of the model checker.             *)
(***************************************************************************)
RECURSIVE ToBig(_)
ToBig(n) == IF n = 0 THEN <<>> ELSE <<n % 10000>> \o ToBig(n \div 10000)

RECURSIVE BAddC(_, _, _)
BAddC(a, b, c) ==
  IF a = <<>> /\ b = <<>> THEN (IF c = 0 THEN <<>> ELSE <<c>>)
  ELSE LET x == (IF a = <<>> THEN 0 ELSE Head(a)) + (IF b = <<>> THEN 0 ELSE Head(b)) + c
       IN <<x % 10000>> \o BAddC(IF a = <<>> THEN <<>> ELSE Tail(a),
                                 IF b = <<>> THEN <<>> ELSE Tail(b), x \div 10000)

BAdd(a, b) == BAddC(a, b, 0)

RECURSIVE BCmpFrom(_, _, _)
BCmpFrom(a, b, k) ==
  IF k = 0 THEN 0
  ELSE IF a[k] # b[k] THEN (IF a[k] < b[k] THEN -1 ELSE 1)
       ELSE BCmpFrom(a, b, k - 1)

\* -1, 0 or 1 as a < b, a = b or a > b.
BCmp(a, b) ==
  IF Len(a) # Len(b) THEN (IF Len(a) < Len(b) THEN -1 ELSE 1)
  ELSE BCmpFrom(a, b, Len(a))

RECURSIVE BTrim(_)
BTrim(a) ==
  IF a = <<>> THEN <<>>
  ELSE IF a[Len(a)] = 0 THEN BTrim(SubSeq(a, 1, Len(a) - 1)) ELSE a

RECURSIVE BSubB(_, _, _)
BSubB(a, b, borrow) ==
  IF a = <<>> THEN <<>>
  ELSE LET x == Head(a) - (IF b = <<>> THEN 0 ELSE Head(b)) - borrow
       IN <<(x + 10000) % 10000>>
            \o BSubB(Tail(a), IF b = <<>> THEN <<>> ELSE Tail(b), IF x < 0 THEN 1 ELSE 0)

\* a - b for a >= b.
BSub(a, b) == BTrim(BSubB(a, b, 0))

BAbsDiff(a, b) == IF BCmp(a, b) >= 0 THEN BSub(a, b) ELSE BSub(b, a)

RECURSIVE BMulLimb(_, _, _)
BMulLimb(a, m, c) ==
  IF a = <<>> THEN ToBig(c)
  ELSE LET x == Head(a) * m + c
       IN <<x % 10000>> \o BMulLimb(Tail(a), m, x \div 10000)

RECURSIVE BMul(_, _)
BMul(a, b) ==
  IF a = <<>> \/ b = <<>> THEN <<>>
  ELSE LET rest == BMul(Tail(a), b)
           hi   == IF rest = <<>> THEN <<>> ELSE <<0>> \o rest
       IN IF Head(a) = 0 THEN hi ELSE BAdd(BMulLimb(b, Head(a), 0), hi)

\* |m| * |n| for machine integers m and n.
BProd(m, n) == BMul(ToBig(Abs(m)), ToBig(Abs(n)))

\* Sum of s[lo..hi], by halves.
RECURSIVE BSumRange(_, _, _)
BSumRange(s, lo, hi) ==
  IF lo > hi THEN <<>>
  ELSE IF lo = hi THEN s[lo]
       ELSE BAdd(BSumRange(s, lo, (lo + hi) \div 2), BSumRange(s, (lo + hi) \div 2 + 1, hi))

BSum(s) == BSumRange(s, 1, Len(s))

(***************************************************************************)
(* Sequence helpers.                                                       *)
(***************************************************************************)
RECURSIVE SumR(_)
SumR(s) == IF s = <<>> THEN FromInt(0) ELSE RAdd(Head(s), SumR(Tail(s)))

Slice(s, lo, hi) == [i \in 1..(IF hi >= lo THEN hi - lo + 1 ELSE 0) |-> s[lo + i - 1]]

Reverse(s) == [i \in 1..Len(s) |-> s[Len(s) + 1 - i]]

\* The sequence s with every element evaluated.
Seq1(s) == s \o <<>>

(***************************************************************************)
(* DataFrame primitives used by all three functions.                       *)
(***************************************************************************)
NumericDtypes == {"float64", "int64"}

Column(name, dtype, values) == [name |-> name, dtype |-> dtype, data |-> values]

EmptyFrame == [index |-> <<>>, cols |-> <<>>]

ColumnNames(df) == {df.cols[i].name : i \in 1..Len(df.cols)}

ColumnPos(df, name) == CHOOSE i \in 1..Len(df.cols) : df.cols[i].name = name

\* data.set_index(date_col).copy(): the date column becomes the index and
\* leaves the columns; otherwise data.copy().
set_index(df, dc) ==
  IF dc \in ColumnNames(df)
  THEN LET p == ColumnPos(df, dc)
       IN [index |-> df.cols[p].data,
           cols  |-> SelectSeq(df.cols, LAMBDA c : c.name # dc)]
  ELSE df

\* Stable insertion of position p into the list of positions acc, which is
\* sorted by index value: p goes after every position with an equal key.
RECURSIVE InsertPos(_, _, _)
InsertPos(idx, acc, p) ==
  IF acc = <<>> THEN <<p>>
  ELSE IF idx[p] < idx[Head(acc)] THEN <<p>> \o acc
       ELSE <<Head(acc)>> \o InsertPos(idx, Tail(acc), p)

RECURSIVE ArgSort(_, _)
ArgSort(idx, k) ==
  IF k = 0 THEN <<>> ELSE InsertPos(idx, ArgSort(idx, k - 1), k)

\* sort_index that keeps one row per timestamp.
sort_index_DropDuplicates(df) ==
  LET perm == ArgSort(df.index, Len(df.index))
      keep == SelectSeq([i \in 1..Len(perm) |-> i],
                        LAMBDA i : i = 1 \/ df.index[perm[i]] # df.index[perm[i - 1]])
  IN [index |-> [i \in 1..Len(keep) |-> df.index[perm[keep[i]]]],
      cols  |-> [c \in 1..Len(df.cols) |->
                   [df.cols[c] EXCEPT !.data = [i \in 1..Len(keep) |-> df.cols[c].data[perm[keep[i]]]]]]]

\* sort_index leaving the rows in the caller's order.
sort_index_Unsorted(df) == df

IsMonotonic(idx) == \A i \in 1..(Len(idx) - 1) : idx[i] <= idx[i + 1]

\* df.sort_index(): a copy when the index is already ascending, else the rows
\* reordered by ascending index, ties in input order.
sort_index(df) ==
  LET perm == ArgSort(df.index, Len(df.index))
  IN IF IsMonotonic(df.index) THEN df ELSE
     [index |-> [i \in 1..Len(perm) |-> df.index[perm[i]]],
      cols  |-> [c \in 1..Len(df.cols) |->
                   [df.cols[c] EXCEPT !.data = [i \in 1..Len(perm) |-> df.cols[c].data[perm[i]]]]]]

\* df.select_dtypes(include=['float64', 'int64']).columns
select_dtypes(df) == SelectSeq(df.cols, LAMBDA c : c.dtype \in NumericDtypes)

\* SelectColumn falling back on the first column, whatever its dtype.
SelectColumn_AnyDtype(df, col) ==
  IF col \in ColumnNames(df)
  THEN [found |-> TRUE, col |-> df.cols[ColumnPos(df, col)]]
  ELSE IF Len(df.cols) > 0
       THEN [found |-> TRUE, col |-> df.cols[1]]
       ELSE [found |-> FALSE, col |-> Column("", "object", <<>>)]

\* The column the functions analyse: the requested one when present, else the
\* first float64/int64 column, else none.
SelectColumn(df, col) ==
  IF col \in ColumnNames(df)
  THEN [found |-> TRUE, col |-> df.cols[ColumnPos(df, col)]]
  ELSE IF Len(select_dtypes(df)) > 0
       THEN [found |-> TRUE, col |-> select_dtypes(df)[1]]
       ELSE [found |-> FALSE, col |-> Column("", "object", <<>>)]

\* Positions of the non-missing entries of a numeric series, in order.
ValidPos(xs, k) == SelectSeq([i \in 1..k |-> i], LAMBDA i : ~IsNaN(xs[i]))

\* dropna that drops nothing.
dropna_KeepAll(index, col) == [index |-> index, data |-> col.data]

\* series.dropna(): an object column of strings holds no missing value.
dropna(index, col) ==
  IF col.dtype \in NumericDtypes
  THEN LET vp == ValidPos(col.data, Len(col.data))
       IN [index |-> [i \in 1..Len(vp) |-> index[vp[i]]],
           data  |-> [i \in 1..Len(vp) |-> col.data[vp[i]]]]
  ELSE [index |-> index, data |-> col.data]

\* series.ewm(alpha=a, adjust=False).mean(), pandas' recurrence with
\* ignore_na=False: st = <<weighted, old_wt>>, out the values so far.
RECURSIVE EwmStep(_, _, _, _, _)
EwmStep(xs, a, k, st, out) ==
  IF k > Len(xs) THEN out
  ELSE LET cur == xs[k]
           w   == st[1]
           ow  == RMul(st[2], RSub(FromInt(1), a))
           nst == IF ~IsNaN(w)
                  THEN IF ~IsNaN(cur)
                       THEN <<RDiv(RAdd(RMul(ow, w), RMul(a, cur)), RAdd(ow, a)), FromInt(1)>>
                       ELSE <<w, ow>>
                  ELSE <<cur, FromInt(1)>>
       IN EwmStep(xs, a, k + 1, nst, Append(out, nst[1]))

ewm_mean(xs, a) ==
  IF xs = <<>> THEN <<>>
  ELSE EwmStep(xs, a, 2, <<xs[1], FromInt(1)>>, <<xs[1]>>)

(***************************************************************************)
(* Least-squares line of the non-missing values against the 0-based row    *)
(* position, as perform_trend_analysis and detect_patterns both compute    *)
(* it.  The cells of an input table are integers; with n valid points,     *)
(* v[k] = n * (x[k] - mean_x) and u[k] = n * (y[k] - mean_y) are integers. *)
(***************************************************************************)
RECURSIVE SumIRange(_, _, _)
SumIRange(s, lo, hi) ==
  IF lo > hi THEN 0
  ELSE IF lo = hi THEN s[lo]
       ELSE SumIRange(s, lo, (lo + hi) \div 2) + SumIRange(s, (lo + hi) \div 2 + 1, hi)

SumI(s) == SumIRange(s, 1, Len(s))

Sign(m) == IF m < 0 THEN -1 ELSE IF m > 0 THEN 1 ELSE 0

\* |a * b - c * d| as an unbounded natural.
BAbsDiffProd(a, b, c, d) ==
  IF Sign(a) * Sign(b) * Sign(c) * Sign(d) >= 0
  THEN BAbsDiff(BProd(a, b), BProd(c, d))
  ELSE BAdd(BProd(a, b), BProd(c, d))

Regression(xs) ==
  LET vp    == ValidPos(xs, Len(xs))
      n     == Len(vp)
      X     == Seq1([k \in 1..n |-> vp[k] - 1])
      Y     == Seq1([k \in 1..n |-> xs[vp[k]][1]])
      sum_x == SumI(X)
      sum_y == SumI(Y)
      v     == Seq1([k \in 1..n |-> n * X[k] - sum_x])
      u     == Seq1([k \in 1..n |-> n * Y[k] - sum_y])
      numerator   == SumI(Seq1([k \in 1..n |-> v[k] * u[k]]))
      denominator == SumI(Seq1([k \in 1..n |-> v[k] * v[k]]))
      slope     == IF denominator # 0 THEN Rat(numerator, denominator) ELSE FromInt(0)
      mean_x    == Rat(sum_x, n)
      mean_y    == Rat(sum_y, n)
      intercept == RSub(mean_y, RMul(slope, mean_x))
      \* with slope = p / q: ss_total = T / (n q)^2 and ss_residual = R / (n q)^2
      p  == slope[1]
      q  == slope[2]
      uu == BSum(Seq1([k \in 1..n |-> BProd(u[k], u[k])]))
      T  == BMul(uu, BProd(q, q))
      R  == BSum(Seq1([k \in 1..n |-> LET r == BAbsDiffProd(u[k], q, p, v[k]) IN BMul(r, r)]))
  IN [n |-> n, Y |-> Y, u |-> u, uu |-> uu, slope |-> slope, intercept |-> intercept,
      ss_total |-> T, ss_residual |-> R]

(***************************************************************************)
(* detect_patterns                                                         *)
(*                                                                         *)
(* A confidence is a record: form "linear" stands for the percentage       *)
(* (+/-) num / den, form "sqrt" for 100 * (1 - sqrt(num / den)), with num  *)
(* and den unbounded naturals.                                             *)
(***************************************************************************)
HSMinLen == 30
DBMinLen == 20
RecentLen == 10

Linear(neg, num, den) == [form |-> "linear", neg |-> neg, num |-> num, den |-> den]

OneMinusSqrt(num, den) == [form |-> "sqrt", neg |-> FALSE, num |-> num, den |-> den]

\* The percentage c, a rational.
Percent(c) == Linear(c[1] < 0, ToBig(Abs(c[1])), ToBig(c[2]))

\* series.rolling(window=w, min_periods=1).mean(): the mean of the
\* non-missing values among the w rows ending at row i.
RollingWindow(xs, w, i) ==
  SelectSeq(Slice(xs, IF i > w THEN i - w + 1 ELSE 1, i), LAMBDA x : ~IsNaN(x))

rolling_mean(xs, w) ==
  Seq1([i \in 1..Len(xs) |->
          LET win == RollingWindow(xs, w, i)
          IN IF win = <<>> THEN NaN ELSE RDiv(SumR(win), FromInt(Len(win)))])

\* The positions range(2, len(smoothed) - 2) of the scans, 1-based here.
ScanPositions(sm) == [k \in 1..(IF Len(sm) > 4 THEN Len(sm) - 4 ELSE 0) |-> k + 2]

IsPeak(sm, i) ==
  /\ RGt(sm[i], sm[i - 1]) /\ RGt(sm[i], sm[i - 2])
  /\ RGt(sm[i], sm[i + 1]) /\ RGt(sm[i], sm[i + 2])

IsMinimum(sm, i) ==
  /\ RLt(sm[i], sm[i - 1]) /\ RLt(sm[i], sm[i - 2])
  /\ RLt(sm[i], sm[i + 1]) /\ RLt(sm[i], sm[i + 2])

\* The list of (0-based position, value) pairs the scan appends.
Extrema(sm, kind) ==
  LET ps == SelectSeq(ScanPositions(sm),
                      LAMBDA i : IF kind = "peak" THEN IsPeak(sm, i) ELSE IsMinimum(sm, i))
  IN [k \in 1..Len(ps) |-> <<ps[k] - 1, sm[ps[k]]>>]

\* sorted(list, key=...): stable, so an element goes before the first one
\* that the key puts strictly after it.
Before(key, a, b) ==
  CASE key = "value_desc" -> RGt(a[2], b[2])
    [] key = "value"      -> RLt(a[2], b[2])
    [] key = "index"      -> a[1] < b[1]

RECURSIVE InsertSorted(_, _, _)
InsertSorted(key, acc, e) ==
  IF acc = <<>> THEN <<e>>
  ELSE IF Before(key, e, Head(acc)) THEN <<e>> \o acc
       ELSE <<Head(acc)>> \o InsertSorted(key, Tail(acc), e)

RECURSIVE sorted(_, _)
sorted(key, s) ==
  IF s = <<>> THEN <<>>
  ELSE InsertSorted(key, sorted(key, SubSeq(s, 1, Len(s) - 1)), s[Len(s)])

FirstN(s, k) == SubSeq(s, 1, IF Len(s) < k THEN Len(s) ELSE k)

\* TrendPattern storing the confidence under both trend labels.
TrendPattern_BothLabels(reg) ==
  LET zero == reg.ss_total = <<>>
      num  == IF zero THEN <<>> ELSE BSub(reg.ss_total, reg.ss_residual)
      den  == IF zero THEN ToBig(1) ELSE reg.ss_total
  IN IF BCmp(BMulLimb(num, 10, 0), BMulLimb(den, 7, 0)) = 1
     THEN {<<"Upward Trend", Linear(FALSE, BMulLimb(num, 100, 0), den)>>,
           <<"Downward Trend", Linear(FALSE, BMulLimb(num, 100, 0), den)>>}
     ELSE {}

\* r_squared > 0.7 and the confidence r_squared * 100.
TrendPattern(reg) ==
  LET zero  == reg.ss_total = <<>>
      num   == IF zero THEN <<>> ELSE BSub(reg.ss_total, reg.ss_residual)
      den   == IF zero THEN ToBig(1) ELSE reg.ss_total
      label == IF RGt(reg.slope, FromInt(0)) THEN "Upward Trend" ELSE "Downward Trend"
  IN IF BCmp(BMulLimb(num, 10, 0), BMulLimb(den, 7, 0)) = 1
     THEN {<<label, Linear(FALSE, BMulLimb(num, 100, 0), den)>>}
     ELSE {}

\* MeanReversionPattern with the zero-std case skipped instead of taken as a
\* deviation of 0.
MeanReversionPattern_SkipZeroStd(reg) ==
  LET n   == reg.n
      k   == IF n < RecentLen THEN n ELSE RecentLen
      d   == n * SumI(SubSeq(reg.Y, n - k + 1, n)) - k * SumI(reg.Y)
      num == BMul(ToBig(n), BProd(d, d))
      den == BMul(ToBig(k * k), reg.uu)
  IN IF k > 0 /\ reg.uu # <<>> /\ BCmp(BMulLimb(num, 4, 0), den) = -1
     THEN {<<"Mean Reversion", OneMinusSqrt(num, den)>>}
     ELSE {}

\* deviation = |recent_mean - series_mean| / series_std, 0 when the population
\* std is 0; deviation^2 = n * (n * S10 - k * S)^2 / (k^2 * sum of u^2), where
\* S10 is the sum of the last k = min(10, n) valid values and S the sum of all.
MeanReversionPattern(reg) ==
  LET n      == reg.n
      k      == IF n < RecentLen THEN n ELSE RecentLen
      recent == SubSeq(reg.Y, n - k + 1, n)
      d      == n * SumI(recent) - k * SumI(reg.Y)
      std0   == reg.uu = <<>>
      num    == IF std0 THEN <<>> ELSE BMul(ToBig(n), BProd(d, d))
      den    == IF std0 THEN ToBig(1) ELSE BMul(ToBig(k * k), reg.uu)
  IN IF k > 0 /\ BCmp(BMulLimb(num, 4, 0), den) = -1
     THEN {<<"Mean Reversion", OneMinusSqrt(num, den)>>}
     ELSE {}

HeadAndShouldersPattern(smoothed) ==
  LET peaks == Extrema(smoothed, "peak")
  IN IF Len(peaks) >= 3
     THEN LET top_peaks == sorted("index", FirstN(sorted("value_desc", peaks), 3))
              shoulder_diff == RAbs(RSub(top_peaks[1][2], top_peaks[3][2]))
              avg_shoulder  == RDiv(RAdd(top_peaks[1][2], top_peaks[3][2]), FromInt(2))
              head_prominence == RDiv(RSub(top_peaks[2][2], avg_shoulder), avg_shoulder)
          IN IF /\ RGt(top_peaks[2][2], top_peaks[1][2])
                /\ RGt(top_peaks[2][2], top_peaks[3][2])
                /\ RLt(RDiv(shoulder_diff, avg_shoulder), Rat(2, 10))
             THEN {<<"Head and Shoulders",
                     Percent(RMin(RMul(head_prominence, FromInt(100)), FromInt(90)))>>}
             ELSE {}
     ELSE {}

DoubleBottomPattern(smoothed) ==
  LET minimums == Extrema(smoothed, "minimum")
  IN IF Len(minimums) >= 2
     THEN LET lowest_mins == sorted("index", FirstN(sorted("value", minimums), 2))
              min_diff  == RAbs(RSub(lowest_mins[1][2], lowest_mins[2][2]))
              avg_min   == RDiv(RAdd(lowest_mins[1][2], lowest_mins[2][2]), FromInt(2))
              time_diff == lowest_mins[2][1] - lowest_mins[1][1]
          IN IF RLt(RDiv(min_diff, avg_min), Rat(1, 10)) /\ time_diff > 5
             THEN {<<"Double Bottom",
                     Percent(RMul(RSub(FromInt(1), RDiv(min_diff, avg_min)), FromInt(100)))>>}
             ELSE {}
     ELSE {}

\* The smoothed series the peak and minimum scans read (line 205), bound
\* when the head-and-shoulders block is entered; the empty sequence otherwise.
smoothed_series(d, col, dc) ==
  LET df  == sort_index(set_index(d, dc))
      sel == SelectColumn(df, col)
  IN IF ~sel.found \/ sel.col.dtype \notin NumericDtypes THEN <<>>
     ELSE IF Regression(sel.col.data).n > 1 /\ Len(sel.col.data) >= HSMinLen
          THEN rolling_mean(sel.col.data, 3)
          ELSE <<>>

\* The divisions the checks execute, each with its site and whether its
\* divisor is zero: r_squared (line 173) and deviation (line 194) divide
\* only behind their guards, the shoulder test (line 228) and the minimum
\* test (line 256) divide whenever they are reached.
Division(site, divisor) == [site |-> site, zero |-> divisor = FromInt(0)]

ShoulderDivisions(smoothed) ==
  LET peaks == Extrema(smoothed, "peak")
  IN IF Len(peaks) >= 3
     THEN LET top_peaks == sorted("index", FirstN(sorted("value_desc", peaks), 3))
          IN IF /\ RGt(top_peaks[2][2], top_peaks[1][2])
                /\ RGt(top_peaks[2][2], top_peaks[3][2])
             THEN {Division("avg_shoulder",
                            RDiv(RAdd(top_peaks[1][2], top_peaks[3][2]), FromInt(2)))}
             ELSE {}
     ELSE {}

MinimumDivisions(smoothed) ==
  LET minimums == Extrema(smoothed, "minimum")
  IN IF Len(minimums) >= 2
     THEN LET lowest_mins == sorted("index", FirstN(sorted("value", minimums), 2))
          IN {Division("avg_min", RDiv(RAdd(lowest_mins[1][2], lowest_mins[2][2]), FromInt(2)))}
     ELSE {}

detect_divisions(d, col, dc) ==
  LET df  == sort_index(set_index(d, dc))
      sel == SelectColumn(df, col)
  IN IF ~sel.found \/ sel.col.dtype \notin NumericDtypes THEN {}
     ELSE LET series == sel.col.data
              len    == Len(series)
              reg    == Regression(series)
          IN IF reg.n > 1
             THEN (IF reg.ss_total # <<>> THEN {[site |-> "ss_total", zero |-> FALSE]} ELSE {})
                    \cup (IF reg.uu # <<>> THEN {[site |-> "series_std", zero |-> FALSE]} ELSE {})
                    \cup (IF len >= HSMinLen
                          THEN LET smoothed == rolling_mean(series, 3)
                               IN ShoulderDivisions(smoothed) \cup MinimumDivisions(smoothed)
                          ELSE {})
             ELSE {}

\* The dict built from (label, confidence) pairs with distinct labels.
Dict(pairs) ==
  [l \in {pr[1] : pr \in pairs} |-> (CHOOSE pr \in pairs : pr[1] = l)[2]]

detect_patterns(d, col, dc) ==
  LET df  == sort_index(set_index(d, dc))
      sel == SelectColumn(df, col)
  IN IF ~sel.found THEN <<>>
     \* np.isnan of a non-numeric array raises inside the try block
     ELSE IF sel.col.dtype \notin NumericDtypes THEN <<>>
     ELSE LET series == sel.col.data
              len    == Len(series)
              reg    == Regression(series)
          IN IF reg.n > 1
             THEN \* smoothed is assigned in the head-and-shoulders block only:
                  \* with 20 to 29 rows the double-bottom scan reads an unbound
                  \* name, and the except clause returns the empty dict.
                  IF len >= DBMinLen /\ len < HSMinLen THEN <<>>
                  ELSE LET smoothed == rolling_mean(series, 3)
                       IN Dict(TrendPattern(reg) \cup MeanReversionPattern(reg)
                                 \cup (IF len >= HSMinLen
                                       THEN HeadAndShouldersPattern(smoothed) ELSE {})
                                 \cup (IF len >= DBMinLen
                                       THEN DoubleBottomPattern(smoothed) ELSE {}))
             ELSE <<>>

(***************************************************************************)
(* predict_future_values                                                   *)
(***************************************************************************)
DayStep == 2

\* The smoothing factor applied to the previous value instead of the new one.
Alpha_Swapped == Rat(7, 10)

Alpha == Rat(3, 10)

Returned(f) == [outcome |-> "returned", frame |-> f]

Raised == [outcome |-> "raised", frame |-> EmptyFrame]

\* pd.infer_freq(index) on a sorted datetime index of at least 3 entries (it
\* raises on fewer, which the length test before it excludes): the
\* common difference of a strictly increasing, evenly spaced index, else
\* None (0 here).  Calendar frequencies (business days, months) are not modelled.
infer_freq(idx) ==
  IF \A i \in 1..(Len(idx) - 1) : idx[i + 1] - idx[i] = idx[2] - idx[1] /\ idx[i + 1] > idx[i]
  THEN idx[2] - idx[1]
  ELSE 0

\* pd.date_range(start, periods=n, freq=step)
date_range(start, n, step) == [i \in 1..n |-> start + (i - 1) * step]

\* The future dates with the start date kept.
FutureDates_KeepStart(last_date, h, freq) == date_range(last_date, h, freq)

\* pd.date_range(start=last_date, periods=periods+1, freq=...)[1:]
FutureDates(last_date, h, freq) == Tail(date_range(last_date, h + 1, freq))

\* A band of fixed width instead of a relative one.
LowerBound_Absolute(point) == RSub(point, Rat(1, 10))

\* forecast_df[column] * 0.9 and forecast_df[column] * 1.1
LowerBound(point) == RMul(point, Rat(9, 10))

UpperBound(point) == RMul(point, Rat(11, 10))

predict_future_values(d, col, h, dc) ==
  LET df  == sort_index(set_index(d, dc))
      sel == SelectColumn(df, col)
  IN IF ~sel.found THEN Returned(EmptyFrame)
     ELSE LET series == dropna(df.index, sel.col)
              n      == Len(series.data)
          IN IF n < 3 THEN Returned(EmptyFrame)
             \* ewm().mean() of a non-numeric series raises inside the try block
             ELSE IF sel.col.dtype \notin NumericDtypes THEN Returned(EmptyFrame)
             ELSE LET smoothed   == ewm_mean(series.data, Alpha)
                      last_value == smoothed[n]
                      last_date  == series.index[n]
                      inferred   == infer_freq(series.index)
                      freq       == IF inferred # 0 THEN inferred ELSE DayStep
                      dates      == FutureDates(last_date, h, freq)
                      point      == [i \in 1..h |-> last_value]
                      name       == sel.col.name
                  IN Returned([index |-> dates,
                               cols  |-> <<Column(name, "float64", point),
                                           Column(name \o "_lower", "float64",
                                                  [i \in 1..h |-> LowerBound(point[i])]),
                                           Column(name \o "_upper", "float64",
                                                  [i \in 1..h |-> UpperBound(point[i])])>>])

(***************************************************************************)
(* perform_trend_analysis                                                  *)
(***************************************************************************)
BollWindow == 20

\* The smoothing factor taken as the inverse of the span.
SpanAlpha_Period(span) == Rat(1, span)

\* alpha of ewm(span=...): 2 / (span + 1)
SpanAlpha(span) == Rat(2, span + 1)

\* series.diff()
diff(xs) == [i \in 1..Len(xs) |-> IF i = 1 THEN NaN ELSE RSub(xs[i], xs[i - 1])]

\* delta.where(delta > 0, 0) and -delta.where(delta < 0, 0)
Gain(delta) == [i \in 1..Len(delta) |-> IF RGt(delta[i], FromInt(0)) THEN delta[i] ELSE FromInt(0)]

Loss(delta) == [i \in 1..Len(delta) |-> IF RLt(delta[i], FromInt(0)) THEN RNeg(delta[i]) ELSE FromInt(0)]

\* RSI without the fillna(50) of its undefined positions.
RSI_NoFill(xs) ==
  LET delta    == Seq1(diff(xs))
      avg_gain == rolling_mean(Seq1(Gain(delta)), 14)
      avg_loss == rolling_mean(Seq1(Loss(delta)), 14)
  IN [i \in 1..Len(xs) |->
        LET rs == RDiv(avg_gain[i], IF avg_loss[i] = FromInt(0) THEN NaN ELSE avg_loss[i])
        IN RSub(FromInt(100), RDiv(FromInt(100), RAdd(FromInt(1), rs)))]

\* RSI with a zero average loss taken as an infinite relative strength.
RSI_InfiniteRS(xs) ==
  LET delta    == Seq1(diff(xs))
      avg_gain == rolling_mean(Seq1(Gain(delta)), 14)
      avg_loss == rolling_mean(Seq1(Loss(delta)), 14)
  IN [i \in 1..Len(xs) |->
        LET rs  == RDiv(avg_gain[i], avg_loss[i])
            rsi == RSub(FromInt(100), RDiv(FromInt(100), RAdd(FromInt(1), rs)))
        IN IF avg_loss[i] = FromInt(0) /\ RGt(avg_gain[i], FromInt(0)) THEN FromInt(100)
           ELSE IF IsNaN(rsi) THEN FromInt(50) ELSE rsi]

\* 100 - 100 / (1 + avg_gain / avg_loss.replace(0, nan)), then fillna(50)
RSI(xs) ==
  LET delta    == Seq1(diff(xs))
      avg_gain == rolling_mean(Seq1(Gain(delta)), 14)
      avg_loss == rolling_mean(Seq1(Loss(delta)), 14)
  IN [i \in 1..Len(xs) |->
        LET rs  == RDiv(avg_gain[i], IF avg_loss[i] = FromInt(0) THEN NaN ELSE avg_loss[i])
            rsi == RSub(FromInt(100), RDiv(FromInt(100), RAdd(FromInt(1), rs)))
        IN IF IsNaN(rsi) THEN FromInt(50) ELSE rsi]

\* series.rolling(window=w, min_periods=1).std() squared: the sample variance
\* (ddof = 1) of the non-missing values of the window, missing when the
\* window holds fewer than 2 of them.
rolling_var(xs, w) ==
  [i \in 1..Len(xs) |->
     LET win == RollingWindow(xs, w, i)
         k   == Len(win)
         m   == RDiv(SumR(win), FromInt(k))
     IN IF k < 2 THEN NaN
        ELSE RDiv(SumR([j \in 1..k |-> RMul(RSub(win[j], m), RSub(win[j], m))]), FromInt(k - 1))]

\* The cell mean + k * sqrt(var) of a Bollinger band: <<mean, k, var>>, and
\* NaN when the mean or the standard deviation is missing.
Band(mean, k, var) == IF IsNaN(mean) \/ IsNaN(var) THEN NaN ELSE <<mean, k, var>>

Suffixes == <<"SMA7", "SMA14", "SMA30", "EMA7", "EMA14", "RSI", "SMA20", "BOLU", "BOLD",
              "MACD", "MACD_signal", "trend">>

\* The fitted line left missing at the rows whose value is missing.
TrendLine_MissingKept(xs) ==
  LET reg == Regression(xs)
  IN IF reg.n > 1
     THEN [i \in 1..Len(xs) |-> IF IsNaN(xs[i]) THEN NaN
                                 ELSE RAdd(reg.intercept, RMul(reg.slope, FromInt(i - 1)))]
     ELSE [i \in 1..Len(xs) |-> NaN]

\* The regression block: a fitted value for every row, or an all-missing column.
TrendLine(xs) ==
  LET reg == Regression(xs)
  IN IF reg.n > 1
     THEN [i \in 1..Len(xs) |-> RAdd(reg.intercept, RMul(reg.slope, FromInt(i - 1)))]
     ELSE [i \in 1..Len(xs) |-> NaN]

\* The indicators with the MACD taken short minus long.
Indicators_ShortMinusLong(xs) ==
  LET ema7  == ewm_mean(xs, SpanAlpha(7))
      ema14 == ewm_mean(xs, SpanAlpha(14))
      sma20 == rolling_mean(xs, BollWindow)
      var20 == Seq1(rolling_var(xs, BollWindow))
      macd  == Seq1([i \in 1..Len(xs) |-> RSub(ema7[i], ema14[i])])
  IN <<rolling_mean(xs, 7), rolling_mean(xs, 14), rolling_mean(xs, 30),
       ema7, ema14, Seq1(RSI(xs)), sma20,
       Seq1([i \in 1..Len(xs) |-> Band(sma20[i], 2, var20[i])]),
       Seq1([i \in 1..Len(xs) |-> Band(sma20[i], -2, var20[i])]),
       macd, ewm_mean(macd, SpanAlpha(9)), Seq1(TrendLine(xs))>>

\* The indicator columns, in the order of Suffixes.
Indicators(xs) ==
  LET ema7  == ewm_mean(xs, SpanAlpha(7))
      ema14 == ewm_mean(xs, SpanAlpha(14))
      sma20 == rolling_mean(xs, BollWindow)
      var20 == Seq1(rolling_var(xs, BollWindow))
      macd  == Seq1([i \in 1..Len(xs) |-> RSub(ema14[i], ema7[i])])
  IN <<rolling_mean(xs, 7), rolling_mean(xs, 14), rolling_mean(xs, 30),
       ema7, ema14, Seq1(RSI(xs)), sma20,
       Seq1([i \in 1..Len(xs) |-> Band(sma20[i], 2, var20[i])]),
       Seq1([i \in 1..Len(xs) |-> Band(sma20[i], -2, var20[i])]),
       macd, ewm_mean(macd, SpanAlpha(9)), Seq1(TrendLine(xs))>>

perform_trend_analysis(d, col, dc) ==
  LET df  == sort_index(set_index(d, dc))
      sel == SelectColumn(df, col)
  IN IF ~sel.found THEN Returned(df)
     \* rolling().mean() of a non-numeric series raises, outside any try block
     ELSE IF sel.col.dtype \notin NumericDtypes THEN Raised
     ELSE LET ind == Indicators(sel.col.data)
          IN Returned([df EXCEPT !.cols =
                         df.cols \o [k \in 1..Len(Suffixes) |->
                                       Column(sel.col.name \o "_" \o Suffixes[k], "float64", ind[k])]])

(***************************************************************************)
(* Input tables.                                                           *)
(***************************************************************************)
Cells == {NaN} \cup {FromInt(v) : v \in (-MaxNeg)..MaxVal}

FewCells == {NaN, FromInt(-MaxNeg), FromInt(MaxVal)}

\* Timestamps of n rows: evenly spaced, unevenly spaced, or with duplicates;
\* in ascending or in descending row order.
SortedIndexes(n) ==
  {[i \in 1..n |-> (i - 1) * s] : s \in 1..MaxStep}
    \cup {[i \in 1..n |-> (i * (i - 1)) \div 2]}
    \cup {[i \in 1..n |-> (i - 1) \div 2]}

IndexShapes(n) == SortedIndexes(n) \cup {Reverse(ix) : ix \in SortedIndexes(n)}

RangeIndex(n) == [i \in 1..n |-> i - 1]

\* A cell of an object column holding a string: no number, and not missing.
TextCell == <<0, -1>>

LabelColumn(n) == Column("label", "object", [i \in 1..n |-> TextCell])

VolumeColumn(n) == Column("volume", "int64", [i \in 1..n |-> FromInt(10 * i)])

\* Tables with the analysed column "price" and a timestamp index: every
\* series of cells on consecutive timestamps, a few series on every index
\* shape, and the series 1, 2, 3.
PriceTables ==
  UNION {{[index |-> RangeIndex(n), cols |-> <<Column("price", "float64", xs)>>] :
             xs \in [1..n -> Cells]} : n \in 0..MaxLen}
    \cup UNION {{[index |-> ix, cols |-> <<Column("price", "float64", xs)>>] :
                   ix \in IndexShapes(n), xs \in [1..n -> FewCells]} : n \in 0..MaxLen}
    \cup {[index |-> <<0, 1, 2>>,
           cols  |-> <<Column("price", "float64", <<FromInt(1), FromInt(2), FromInt(3)>>)>>]}

\* Tables with other column layouts, timestamps evenly spaced.
LayoutTables ==
  UNION {UNION {{[index |-> RangeIndex(n), cols |-> <<LabelColumn(n), Column("price", "float64", xs)>>],
                 [index |-> RangeIndex(n), cols |-> <<LabelColumn(n)>>],
                 [index |-> RangeIndex(n), cols |-> <<Column("price", "float64", xs), VolumeColumn(n)>>],
                 [index |-> RangeIndex(n), cols |-> <<VolumeColumn(n), Column("price", "float64", xs)>>]} :
                 xs \in [1..n -> FewCells]} : n \in 0..MaxLen}

\* Tables whose timestamps are held by a column "date" instead of the index.
DatedTables ==
  UNION {{[index |-> RangeIndex(n),
           cols  |-> <<Column("date", "datetime64", ix), Column("price", "float64", xs)>>] :
             ix \in IndexShapes(n), xs \in [1..n -> FewCells]} : n \in 0..MaxLen}

(***************************************************************************)
(* Long input series for detect_patterns, indexed by consecutive           *)
(* timestamps.  A wave series lies at a level and carries, in cycle c of   *)
(* 10 rows, a V-shaped trough of depth 9 * a[c] centred on row 5 of the    *)
(* cycle (a peak when sign = -1), in the first 3 cycles; a line series is  *)
(* base + slope * i.  The lengths are the multiples of 10 and the last     *)
(* length below each threshold of the pattern checks.                      *)
(***************************************************************************)
Levels == {-30, -7, 0, 7, 30, 300}

Bases == {-30, 0, 1, 5}

LongLens == {10 * k : k \in 1..MaxCycles} \cup {DBMinLen - 1, HSMinLen - 1}

Notch(j) == IF Abs(j - 5) < 3 THEN 3 - Abs(j - 5) ELSE 0

WaveSeries(n, level, sign, a) ==
  [i \in 1..n |->
     LET c == (i - 1) \div 10
     IN FromInt(level - 3 * sign * (IF c + 1 \in DOMAIN a THEN a[c + 1] ELSE 0) * Notch((i - 1) % 10))]

LineSeries(n, base, slope) == [i \in 1..n |-> FromInt(base + slope * (i - 1))]

\* Three peaks, the middle one the highest and the outer ones of unequal height.
UnevenShoulders == {WaveSeries(HSMinLen, level, -1, <<1, MaxAmp + 1, MaxAmp>>) : level \in Levels}

LongSeries ==
  UnevenShoulders \cup
  UNION {{WaveSeries(n, level, sign, a) :
            level \in Levels, sign \in {-1, 1}, a \in [1..3 -> 0..MaxAmp]}
         \cup {LineSeries(n, base, slope) : base \in Bases, slope \in (-MaxSlope)..MaxSlope}
         \cup {Reverse(LineSeries(n, base, slope)) : base \in Bases, slope \in 1..MaxSlope} :
         n \in LongLens}

LongTables ==
  {[index |-> RangeIndex(Len(xs)), cols |-> <<Column("price", "float64", xs)>>] : xs \in LongSeries}

Init ==
  /\ \/ data \in PriceTables /\ column = "price" /\ date_col = "none"
     \/ data \in LayoutTables /\ column \in {"value", "label"} /\ date_col = "none"
     \/ data \in DatedTables /\ column = "price" /\ date_col = "date"
  /\ periods = 0
  /\ op = "none"
  /\ outcome = "none"
  /\ frame = EmptyFrame
  /\ patterns = <<>>
  /\ calls = <<>>

\* periods is the horizon of the last forecast asked for.
PredictFutureValues ==
  \E h \in {0, MaxPeriods} :
     LET r == predict_future_values(data, column, h, date_col)
     IN /\ op \in {"none", "predict_future_values"}
        /\ op' = "predict_future_values"
        /\ periods' = h
        /\ outcome' = r.outcome
        /\ frame' = r.frame
        /\ patterns' = <<>>
        /\ UNCHANGED <<data, column, date_col, calls>>

PerformTrendAnalysis ==
  LET r == perform_trend_analysis(data, column, date_col)
  IN /\ op \in {"none", "perform_trend_analysis"}
     /\ op' = "perform_trend_analysis"
     /\ outcome' = r.outcome
     /\ frame' = r.frame
     /\ patterns' = <<>>
     /\ UNCHANGED <<data, column, date_col, periods, calls>>

DetectPatterns ==
  /\ op \in {"none", "detect_patterns"}
  /\ op' = "detect_patterns"
  /\ outcome' = "returned"
  /\ frame' = EmptyFrame
  /\ patterns' = detect_patterns(data, column, date_col)
  /\ UNCHANGED <<data, column, date_col, periods, calls>>

Next == PerformTrendAnalysis \/ DetectPatterns \/ PredictFutureValues

Spec == Init /\ [][Next]_vars

\* detect_patterns on the long series.
InitLong ==
  /\ data \in LongTables
  /\ column = "price"
  /\ date_col = "none"
  /\ periods = MaxPeriods
  /\ op = "none"
  /\ outcome = "none"
  /\ frame = EmptyFrame
  /\ patterns = <<>>
  /\ calls = <<>>

NextLong == DetectPatterns

SpecLong == InitLong /\ [][NextLong]_vars

(***************************************************************************)
(* Concurrent calls on one table.  The functions keep no module state, so  *)
(* all that calls share is the caller's table.  A call is three steps:     *)
(* it copies the table (lines 21-24), sorts its copy into a new frame      *)
(* (line 27), then runs the rest of the function on that frame and         *)
(* returns.  calls[c] holds the function of call c, its position, its own  *)
(* frame df and its result; overlapped records that another call was       *)
(* between its first and last step when call c started.                    *)
(***************************************************************************)
Callers == {1, 2}

Functions == {"perform_trend_analysis", "detect_patterns", "predict_future_values"}

NoResult == [outcome |-> "none", frame |-> EmptyFrame, patterns |-> <<>>]

IdleCall ==
  [fn |-> "none", pc |-> "idle", df |-> EmptyFrame, overlapped |-> FALSE, result |-> NoResult]

\* Series of 3 rows: a rising one, and one with a missing value.
CallSeries ==
  {[i \in 1..3 |-> FromInt(i - MaxNeg)],
   [i \in 1..3 |-> IF i = 2 THEN NaN ELSE FromInt(MaxVal)]}

\* Tables of 3 rows, with the timestamps in the index or in a column "date".
CallTables ==
  {[index |-> ix, cols |-> <<Column("price", "float64", xs)>>] :
     ix \in IndexShapes(3), xs \in CallSeries}
    \cup {[index |-> RangeIndex(3),
           cols  |-> <<Column("date", "datetime64", Reverse(RangeIndex(3))),
                       Column("price", "float64", xs)>>] : xs \in CallSeries}

InitCalls ==
  /\ data \in CallTables
  /\ column = "price"
  /\ date_col = IF "date" \in ColumnNames(data) THEN "date" ELSE "none"
  /\ periods = MaxPeriods
  /\ op = "none"
  /\ outcome = "none"
  /\ frame = EmptyFrame
  /\ patterns = <<>>
  /\ calls = [c \in Callers |-> IdleCall]

\* df = data.set_index(date_col).copy() or df = data.copy()
CopyTable(c) ==
  /\ calls[c].pc = "idle"
  /\ \E f \in Functions :
       calls' = [calls EXCEPT ![c] =
                   [fn |-> f, pc |-> "copied", df |-> set_index(data, date_col),
                    overlapped |-> \E o \in Callers \ {c} : calls[o].pc \in {"copied", "sorted"},
                    result |-> NoResult]]
  /\ UNCHANGED <<data, column, date_col, periods, op, outcome, frame, patterns>>

\* df = df.sort_index(): a new frame, bound to the local name
SortTable(c) ==
  /\ calls[c].pc = "copied"
  /\ calls' = [calls EXCEPT ![c].pc = "sorted", ![c].df = sort_index(calls[c].df)]
  /\ UNCHANGED <<data, column, date_col, periods, op, outcome, frame, patterns>>

\* The result of the rest of the function of call c on its own frame; that
\* frame is indexed and sorted, and set_index and sort_index leave it as it is.
CallResult_Remembering(c) ==
  LET df   == calls[c].df
      done == Cardinality({o \in Callers : calls[o].pc = "done"})
  IN CASE calls[c].fn = "perform_trend_analysis" ->
            LET r == perform_trend_analysis(df, column, date_col)
            IN [outcome |-> r.outcome, frame |-> r.frame, patterns |-> <<>>]
       [] calls[c].fn = "detect_patterns" ->
            [outcome |-> "returned", frame |-> EmptyFrame,
             patterns |-> detect_patterns(df, column, date_col)]
       [] calls[c].fn = "predict_future_values" ->
            LET r == predict_future_values(df, column, periods + done, date_col)
            IN [outcome |-> r.outcome, frame |-> r.frame, patterns |-> <<>>]

CallResult(c) ==
  LET df == calls[c].df
  IN CASE calls[c].fn = "perform_trend_analysis" ->
            LET r == perform_trend_analysis(df, column, date_col)
            IN [outcome |-> r.outcome, frame |-> r.frame, patterns |-> <<>>]
       [] calls[c].fn = "detect_patterns" ->
            [outcome |-> "returned", frame |-> EmptyFrame,
             patterns |-> detect_patterns(df, column, date_col)]
       [] calls[c].fn = "predict_future_values" ->
            LET r == predict_future_values(df, column, periods, date_col)
            IN [outcome |-> r.outcome, frame |-> r.frame, patterns |-> <<>>]

\* Compute writing the frame it returns into the caller's table.
Compute_InPlace(c) ==
  /\ calls[c].pc = "sorted"
  /\ calls' = [calls EXCEPT ![c].pc = "done", ![c].result = CallResult(c)]
  /\ data' = IF calls[c].fn = "perform_trend_analysis" /\ CallResult(c).outcome = "returned"
             THEN CallResult(c).frame ELSE calls[c].df
  /\ UNCHANGED <<column, date_col, periods, op, outcome, frame, patterns>>

\* The rest of the function: it reads and extends the local frame only.
Compute(c) ==
  /\ calls[c].pc = "sorted"
  /\ calls' = [calls EXCEPT ![c].pc = "done", ![c].result = CallResult(c)]
  /\ UNCHANGED <<data, column, date_col, periods, op, outcome, frame, patterns>>

NextCalls == \E c \in Callers : CopyTable(c) \/ SortTable(c) \/ Compute(c)

SpecCalls == InitCalls /\ [][NextCalls]_vars

(***************************************************************************)
(* Properties.  Analysed is the column the call works on, in the sorted    *)
(* frame; NonMissing counts its non-missing entries.                       *)
(***************************************************************************)
Sorted == sort_index(set_index(data, date_col))

Analysed == SelectColumn(Sorted, column)

IsNumeric == Analysed.found /\ Analysed.col.dtype \in NumericDtypes

NonMissing ==
  IF IsNumeric THEN Len(ValidPos(Analysed.col.data, Len(Analysed.col.data)))
  ELSE Len(Analysed.col.data)

Labels == DOMAIN patterns

\* A confidence lies in [0, 100]; equals 100.
ConfInRange(c) ==
  IF c.form = "linear"
  THEN (~c.neg \/ c.num = <<>>) /\ BCmp(c.num, BMulLimb(c.den, 100, 0)) <= 0
  ELSE BCmp(c.num, c.den) <= 0

ConfIs100(c) ==
  IF c.form = "linear"
  THEN ~c.neg /\ BCmp(c.num, BMulLimb(c.den, 100, 0)) = 0
  ELSE c.num = <<>>

\* The labels of the checks whose own condition holds on the analysed series:
\* trend with 2 valid points, mean reversion with 1, head and shoulders
\* with 30 rows, double bottom with 20.
ChecksThatHold ==
  LET xs  == Analysed.col.data
      reg == Regression(xs)
      sm  == rolling_mean(xs, 3)
      prs == (IF reg.n > 1 THEN TrendPattern(reg) ELSE {})
               \cup (IF reg.n > 0 THEN MeanReversionPattern(reg) ELSE {})
               \cup (IF Len(xs) >= HSMinLen THEN HeadAndShouldersPattern(sm) ELSE {})
               \cup (IF Len(xs) >= DBMinLen THEN DoubleBottomPattern(sm) ELSE {})
  IN {pr[1] : pr \in prs}

\* C1: a series too short for one check (fewer than 2 valid points, fewer than
\* 30 or than 20 rows) loses only that check: the result of detect_patterns
\* holds the label of every check whose own condition holds.
C1_OtherChecksStillRun ==
  (op = "detect_patterns" /\ IsNumeric) => ChecksThatHold \subseteq Labels

IsConstantSeries ==
  /\ IsNumeric
  /\ Len(Analysed.col.data) > 0
  /\ \A i \in 1..Len(Analysed.col.data) : Analysed.col.data[i] = Analysed.col.data[1]
  /\ ~IsNaN(Analysed.col.data[1])

\* C2 as stated: detect_patterns on a constant series returns the empty
\* mapping, with neither a trend label nor "Mean Reversion".
C2_ConstantSeriesEmpty ==
  (op = "detect_patterns" /\ IsConstantSeries) => patterns = <<>>

\* C2 amended: on a constant series detect_patterns returns no trend label,
\* and with at least 30 observations it returns exactly "Mean Reversion",
\* with confidence 100.
C2_ConstantSeriesMeanReversion ==
  (op = "detect_patterns" /\ IsConstantSeries) =>
     /\ Labels \cap {"Upward Trend", "Downward Trend"} = {}
     /\ Len(Analysed.col.data) >= HSMinLen =>
          Labels = {"Mean Reversion"} /\ ConfIs100(patterns["Mean Reversion"])

C2_Witness ==
  /\ op = "detect_patterns"
  /\ Analysed.col.data = [i \in 1..50 |-> FromInt(5)]
  /\ Labels = {"Mean Reversion"}

\* C3: every confidence returned by detect_patterns lies in [0, 100].
C3_ConfidenceInRange ==
  op = "detect_patterns" => \A l \in Labels : ConfInRange(patterns[l])

\* C4: the three functions are total: no call ends with an exception, also
\* when the requested column exists and is not numeric.
C4_NoExceptionCrosses == outcome # "raised"

\* The first float64/int64 column of the frame, by position.
HasNumeric(df) == \E i \in 1..Len(df.cols) : df.cols[i].dtype \in NumericDtypes

FirstNumeric(df) ==
  LET i == CHOOSE i \in 1..Len(df.cols) :
             /\ df.cols[i].dtype \in NumericDtypes
             /\ \A j \in 1..(i - 1) : df.cols[j].dtype \notin NumericDtypes
  IN df.cols[i].name

ColumnAbsent == column \notin ColumnNames(Sorted)

\* C5: with the requested column absent, each function works on the first
\* float64/int64 column and names its columns after it; with no such column,
\* perform_trend_analysis returns the sorted table unchanged, detect_patterns
\* the empty mapping and predict_future_values the empty frame.
C5_ColumnFallback ==
  (ColumnAbsent /\ op # "none") =>
     IF HasNumeric(Sorted)
     THEN LET c == FirstNumeric(Sorted)
          IN /\ op = "perform_trend_analysis" =>
                  /\ outcome = "returned"
                  /\ frame = perform_trend_analysis(data, c, date_col).frame
                  /\ Len(frame.cols) = Len(Sorted.cols) + Len(Suffixes)
                  /\ \A k \in 1..Len(Suffixes) :
                       frame.cols[Len(Sorted.cols) + k].name = c \o "_" \o Suffixes[k]
             /\ op = "detect_patterns" => patterns = detect_patterns(data, c, date_col)
             /\ op = "predict_future_values" =>
                  /\ frame = predict_future_values(data, c, periods, date_col).frame
                  /\ Len(frame.index) > 0 =>
                       /\ frame.cols[1].name = c
                       /\ frame.cols[2].name = c \o "_lower"
                       /\ frame.cols[3].name = c \o "_upper"
     ELSE /\ outcome = "returned"
          /\ op = "perform_trend_analysis" => frame = Sorted
          /\ op = "detect_patterns" => patterns = <<>>
          /\ op = "predict_future_values" => frame = EmptyFrame

C5_Witness ==
  /\ op = "perform_trend_analysis"
  /\ ColumnAbsent
  /\ HasNumeric(Sorted)
  /\ Sorted.cols[1].dtype \notin NumericDtypes
  /\ outcome = "returned"
  /\ Len(frame.index) = MaxLen
  /\ Len(frame.cols) = Len(Sorted.cols) + Len(Suffixes)

Count(seq, t) == Cardinality({i \in 1..Len(seq) : seq[i] = t})

\* C6: for a table of at least one row, every column of the frame that
\* perform_trend_analysis returns has one entry per input row, the 12
\* indicator columns included, and the frame holds every input timestamp as
\* often as the input does.
C6_OneEntryPerRow ==
  (op = "perform_trend_analysis" /\ outcome = "returned" /\ Len(data.index) >= 1) =>
     /\ Len(frame.index) = Len(data.index)
     /\ \A c \in 1..Len(frame.cols) : Len(frame.cols[c].data) = Len(data.index)
     /\ IsNumeric => Len(frame.cols) = Len(Sorted.cols) + 12
     /\ \A t \in {set_index(data, date_col).index[i] : i \in 1..Len(data.index)} :
          Count(frame.index, t) = Count(set_index(data, date_col).index, t)

C6_Witness ==
  /\ op = "perform_trend_analysis"
  /\ outcome = "returned"
  /\ IsNumeric
  /\ Len(frame.index) = MaxLen
  /\ \E i, j \in 1..Len(frame.index) : i # j /\ frame.index[i] = frame.index[j]
  /\ Len(frame.cols) = Len(Sorted.cols) + 12

\* C7: predict_future_values returns the empty frame, not an error, whenever
\* fewer than 3 non-missing observations remain, whatever the horizon.
C7_TooFewObservations ==
  (op = "predict_future_values" /\ Analysed.found /\ NonMissing < 3) =>
     outcome = "returned" /\ frame = EmptyFrame

C7_Witness ==
  /\ op = "predict_future_values"
  /\ IsNumeric
  /\ NonMissing = 2
  /\ Len(data.index) >= 3
  /\ periods > 0
  /\ outcome = "returned"
  /\ frame = EmptyFrame

\* The non-missing values of the analysed column, in timestamp order.
CleanValues == SelectSeq(Analysed.col.data, LAMBDA x : ~IsNaN(x))

\* s[t] of the smoothing s[1] = x[1], s[t] = s[t-1] + 0.3 * (x[t] - s[t-1]).
RECURSIVE Smoothing(_, _)
Smoothing(x, t) ==
  IF t = 1 THEN x[1]
  ELSE LET prev == Smoothing(x, t - 1)
       IN RAdd(prev, RMul(Rat(3, 10), RSub(x[t], prev)))

\* C8: with at least 3 non-missing observations and horizon h, the forecast
\* has exactly h rows, each holding the last value of the 0.3-smoothing of
\* the non-missing observations.
C8_FlatForecast ==
  (op = "predict_future_values" /\ IsNumeric /\ NonMissing >= 3) =>
     /\ outcome = "returned"
     /\ Len(frame.index) = periods
     /\ Len(frame.cols) = 3
     /\ Len(frame.cols[1].data) = periods
     /\ \A i \in 1..periods :
          frame.cols[1].data[i] = Smoothing(CleanValues, Len(CleanValues))

C8_Witness ==
  /\ op = "predict_future_values"
  /\ IsNumeric
  /\ CleanValues = <<FromInt(1), FromInt(2), FromInt(3)>>
  /\ periods = MaxPeriods
  /\ Len(frame.index) = MaxPeriods
  /\ frame.cols[1].data[1] = Rat(181, 100)
  /\ frame.cols[1].data[MaxPeriods] = Rat(181, 100)

\* C9: in every row of a non-empty forecast, lower = 0.9 * point and
\* upper = 1.1 * point, in columns named {column}, {column}_lower and
\* {column}_upper.
C9_TenPercentBand ==
  (op = "predict_future_values" /\ Len(frame.index) > 0) =>
     /\ Len(frame.cols) = 3
     /\ frame.cols[1].name = Analysed.col.name
     /\ frame.cols[2].name = Analysed.col.name \o "_lower"
     /\ frame.cols[3].name = Analysed.col.name \o "_upper"
     /\ \A i \in 1..Len(frame.index) :
          /\ RMul(FromInt(10), frame.cols[2].data[i]) = RMul(FromInt(9), frame.cols[1].data[i])
          /\ RMul(FromInt(10), frame.cols[3].data[i]) = RMul(FromInt(11), frame.cols[1].data[i])

C9_Witness ==
  /\ op = "predict_future_values"
  /\ Len(frame.index) > 0
  /\ RLt(frame.cols[1].data[1], FromInt(0))
  /\ frame.cols[2].name = "price_lower"

\* The timestamps of the rows whose analysed value is not missing, taken from
\* the caller's table in its own row order.
Unsorted == set_index(data, date_col)

ObservedRows ==
  LET col == SelectColumn(Unsorted, column).col
  IN {i \in 1..Len(Unsorted.index) : ~IsNaN(col.data[i])}

ObservedTimestamps == {Unsorted.index[i] : i \in ObservedRows}

LastObserved == CHOOSE t \in ObservedTimestamps : \A u \in ObservedTimestamps : u <= t

FirstObserved == CHOOSE t \in ObservedTimestamps : \A u \in ObservedTimestamps : t <= u

\* The observed timestamps are distinct and evenly spaced by d.
EvenlySpaced(d) ==
  /\ d > 0
  /\ Cardinality(ObservedTimestamps) = Cardinality(ObservedRows)
  /\ ObservedTimestamps =
       {FirstObserved + k * d : k \in 0..(Cardinality(ObservedTimestamps) - 1)}

\* C10: the timestamps of a non-empty forecast start one step after the last
\* observed timestamp of the cleaned series and advance by one step, so they
\* are strictly increasing and none is an observed timestamp; the step is the
\* spacing of the cleaned series when it is evenly spaced, else one day.
C10_FutureTimestamps ==
  (op = "predict_future_values" /\ Len(frame.index) > 0) =>
     \E step \in 1..(LastObserved - FirstObserved + DayStep) :
        /\ EvenlySpaced(step) \/ (step = DayStep /\ \A d \in 1..(LastObserved - FirstObserved) : ~EvenlySpaced(d))
        /\ frame.index[1] = LastObserved + step
        /\ \A i \in 1..(Len(frame.index) - 1) : frame.index[i + 1] = frame.index[i] + step
        /\ \A i \in 1..Len(frame.index) : frame.index[i] \notin ObservedTimestamps

C10_Witness ==
  /\ op = "predict_future_values"
  /\ Len(frame.index) >= 2
  /\ EvenlySpaced(1)
  /\ Unsorted.index[1] > Unsorted.index[2]
  /\ frame.index[1] = LastObserved + 1
  /\ frame.index[2] = LastObserved + 2

\* The indicator column the analysed column's name and a suffix designate.
Indicator(suffix) ==
  frame.cols[ColumnPos(frame, Analysed.col.name \o "_" \o suffix)].data

Analysis == op = "perform_trend_analysis" /\ outcome = "returned" /\ IsNumeric

\* C11: at every position the RSI value perform_trend_analysis produces is
\* present and lies in [0, 100].
C11_RSIPresentAndBounded ==
  Analysis =>
     /\ Len(Indicator("RSI")) = Len(data.index)
     /\ \A i \in 1..Len(Indicator("RSI")) :
          /\ ~IsNaN(Indicator("RSI")[i])
          /\ RLe(FromInt(0), Indicator("RSI")[i])
          /\ RLe(Indicator("RSI")[i], FromInt(100))

C11_Witness ==
  /\ Analysis
  /\ Len(data.index) = MaxLen
  /\ Indicator("RSI")[1] = FromInt(50)
  /\ \E i \in 1..Len(Indicator("RSI")) :
       /\ RLt(FromInt(50), Indicator("RSI")[i])
       /\ RLt(Indicator("RSI")[i], FromInt(100))

\* The band cell mean + k * sqrt(var) is present and lies at or above m; at
\* or below m.
BandAtLeast(cell, m) ==
  ~IsNaN(cell) /\ cell[1] = m /\ (cell[2] >= 0 \/ cell[3] = FromInt(0))

BandAtMost(cell, m) ==
  ~IsNaN(cell) /\ cell[1] = m /\ (cell[2] <= 0 \/ cell[3] = FromInt(0))

\* C12: at every position whose window holds at least one observation,
\* position 0 and single-observation windows included,
\* BOLU[t] >= SMA20[t] >= BOLD[t].
C12_BandsEncloseMean ==
  Analysis =>
     \A i \in 1..Len(Indicator("SMA20")) :
        ~IsNaN(Indicator("SMA20")[i]) =>
           /\ BandAtLeast(Indicator("BOLU")[i], Indicator("SMA20")[i])
           /\ BandAtMost(Indicator("BOLD")[i], Indicator("SMA20")[i])

\* C13: at position 0 of a series whose first value is present, SMA7 and
\* EMA7 equal that value, RSI is 50 and BOLU and BOLD are defined.
C13_PositionZeroDefined ==
  (Analysis /\ Len(data.index) >= 1 /\ ~IsNaN(Analysed.col.data[1])) =>
     /\ Indicator("SMA7")[1] = Analysed.col.data[1]
     /\ Indicator("EMA7")[1] = Analysed.col.data[1]
     /\ Indicator("RSI")[1] = FromInt(50)
     /\ ~IsNaN(Indicator("BOLU")[1])
     /\ ~IsNaN(Indicator("BOLD")[1])

\* The analysed series is 1, 2, ..., n; n, ..., 2, 1; strictly increasing;
\* strictly decreasing.
IsRamp ==
  /\ IsNumeric
  /\ Len(Analysed.col.data) >= 2
  /\ \A i \in 1..Len(Analysed.col.data) : Analysed.col.data[i] = FromInt(i)

IsReversedRamp ==
  /\ IsNumeric
  /\ Len(Analysed.col.data) >= 2
  /\ \A i \in 1..Len(Analysed.col.data) :
       Analysed.col.data[i] = FromInt(Len(Analysed.col.data) + 1 - i)

StrictlyIncreasing ==
  /\ IsNumeric
  /\ Len(Analysed.col.data) >= 2
  /\ \A i \in 1..(Len(Analysed.col.data) - 1) :
       RLt(Analysed.col.data[i], Analysed.col.data[i + 1])

StrictlyDecreasing ==
  /\ IsNumeric
  /\ Len(Analysed.col.data) >= 2
  /\ \A i \in 1..(Len(Analysed.col.data) - 1) :
       RGt(Analysed.col.data[i], Analysed.col.data[i + 1])

\* C14: for the series 1, 2, ..., n with n >= 2 detect_patterns returns
\* "Upward Trend" with confidence 100, for the reversed series "Downward
\* Trend" with confidence 100, and no strictly monotonic series gets the
\* label of the opposite direction.
C14_LinearSeriesTrend ==
  op = "detect_patterns" =>
     /\ IsRamp => /\ "Upward Trend" \in Labels
                  /\ ConfIs100(patterns["Upward Trend"])
     /\ IsReversedRamp => /\ "Downward Trend" \in Labels
                          /\ ConfIs100(patterns["Downward Trend"])
     /\ StrictlyIncreasing => "Downward Trend" \notin Labels
     /\ StrictlyDecreasing => "Upward Trend" \notin Labels

\* The analysed series has positive values and two V-shaped troughs of equal
\* depth whose minima lie 10 positions apart, in at least 20 observations.
IsTwinTroughs ==
  /\ IsNumeric
  /\ Len(Analysed.col.data) >= DBMinLen
  /\ \A i \in 1..Len(Analysed.col.data) : RGt(Analysed.col.data[i], FromInt(0))
  /\ \E level \in Levels, k \in 1..MaxAmp :
       \/ Analysed.col.data = WaveSeries(Len(Analysed.col.data), level, 1, <<k, k, 0>>)
       \/ /\ Len(Analysed.col.data) >= HSMinLen
          /\ Analysed.col.data = WaveSeries(Len(Analysed.col.data), level, 1, <<0, k, k>>)

\* C15: for a series of positive values with two V shapes of equal minima 10
\* positions apart, of any length from 20 on, detect_patterns returns "Double
\* Bottom", with confidence 100 as the two smoothed minima are equal.
C15_TwinTroughsDoubleBottom ==
  (op = "detect_patterns" /\ IsTwinTroughs) =>
     /\ "Double Bottom" \in Labels
     /\ ConfIs100(patterns["Double Bottom"])

PatternLabels ==
  {"Upward Trend", "Downward Trend", "Mean Reversion", "Head and Shoulders", "Double Bottom"}

\* C19: every key of the mapping detect_patterns returns is one of the five
\* pattern labels, the mapping holds one confidence per label, and "Upward
\* Trend" and "Downward Trend" are never both present.
C19_ClosedLabelSet ==
  op = "detect_patterns" =>
     /\ Labels \subseteq PatternLabels
     /\ \A l \in Labels : patterns[l].form \in {"linear", "sqrt"}
     /\ ~({"Upward Trend", "Downward Trend"} \subseteq Labels)

C19_Witness ==
  /\ op = "detect_patterns"
  /\ Cardinality(Labels) >= 2
  /\ Labels \cap {"Upward Trend", "Downward Trend"} # {}

\* The divisions detect_patterns has executed on the analysed series.
Divisions == detect_divisions(data, column, date_col)

ZeroDivisionAt(site) == [site |-> site, zero |-> TRUE]

\* A confidence is a finite number, neither infinite nor NaN.
ConfFinite(c) == c.den # <<>>

Permuted(df, p) ==
  [index |-> [i \in 1..Len(p) |-> df.index[p[i]]],
   cols  |-> [c \in 1..Len(df.cols) |->
                [df.cols[c] EXCEPT !.data = [i \in 1..Len(p) |-> df.cols[c].data[p[i]]]]]]

\* The first row moved to the end; the first two rows exchanged.
Rotation(n) == [i \in 1..n |-> IF i = n THEN 1 ELSE i + 1]

Exchange(n) == [i \in 1..n |-> IF i = 1 THEN 2 ELSE IF i = 2 THEN 1 ELSE i]

Reorderings ==
  IF Len(data.index) < 2 THEN {}
  ELSE {Permuted(data, Rotation(Len(data.index))), Permuted(data, Exchange(Len(data.index)))}

DistinctTimestamps ==
  \A i, j \in 1..Len(Unsorted.index) : i # j => Unsorted.index[i] # Unsorted.index[j]

\* The result of the function of the last call, on the table d.
ResultOn(d) ==
  CASE op = "perform_trend_analysis" ->
         LET r == perform_trend_analysis(d, column, date_col) IN <<r.outcome, r.frame, <<>>>>
    [] op = "detect_patterns" ->
         <<"returned", EmptyFrame, detect_patterns(d, column, date_col)>>
    [] op = "predict_future_values" ->
         LET r == predict_future_values(d, column, periods, date_col) IN <<r.outcome, r.frame, <<>>>>

\* C18: the functions work on the rows in ascending timestamp order: the
\* frame perform_trend_analysis returns is in that order, and a table with
\* distinct timestamps gives the same result whatever the order of its rows.
C18_RowOrderIrrelevant ==
  /\ (op = "perform_trend_analysis" /\ outcome = "returned") =>
        \A i \in 1..(Len(frame.index) - 1) : frame.index[i] <= frame.index[i + 1]
  /\ (op # "none" /\ DistinctTimestamps) =>
        \A d \in Reorderings : ResultOn(d) = <<outcome, frame, patterns>>

C18_Witness ==
  /\ op = "predict_future_values"
  /\ DistinctTimestamps
  /\ Len(data.index) = MaxLen
  /\ Unsorted.index[1] > Unsorted.index[2]
  /\ Len(frame.index) > 0
  /\ frame.index[1] > LastObserved
  /\ Reorderings # {data}

\* What the function fn returns when it is the only call on the table.
RunAlone(fn) ==
  CASE fn = "perform_trend_analysis" ->
         LET r == perform_trend_analysis(data, column, date_col)
         IN [outcome |-> r.outcome, frame |-> r.frame, patterns |-> <<>>]
    [] fn = "detect_patterns" ->
         [outcome |-> "returned", frame |-> EmptyFrame,
          patterns |-> detect_patterns(data, column, date_col)]
    [] fn = "predict_future_values" ->
         LET r == predict_future_values(data, column, periods, date_col)
         IN [outcome |-> r.outcome, frame |-> r.frame, patterns |-> <<>>]

Finished(c) == calls[c].pc = "done"

C17_NoInterference ==
  /\ [](\A c \in DOMAIN calls : Finished(c) => calls[c].result = RunAlone(calls[c].fn))
  /\ [][data' = data]_vars

C17_Witness ==
  /\ DOMAIN calls = Callers
  /\ \A c \in Callers : Finished(c)
  /\ \E c \in Callers : calls[c].overlapped
  /\ calls[1].fn = "perform_trend_analysis"
  /\ calls[2].fn = "predict_future_values"
  /\ data.index[1] > data.index[2]
  /\ Len(calls[1].result.frame.cols) = Len(data.cols) + 12
  /\ Len(calls[2].result.frame.index) = MaxPeriods

\* The mean of the available values among x[i-1], x[i], x[i+1].
CenteredMean(xs, i) ==
  LET win == SelectSeq(Slice(xs, IF i > 1 THEN i - 1 ELSE 1,
                                 IF i < Len(xs) THEN i + 1 ELSE Len(xs)),
                       LAMBDA x : ~IsNaN(x))
  IN IF win = <<>> THEN NaN ELSE RDiv(SumR(win), FromInt(Len(win)))

\* Position p (1-based) holds an isolated peak of the raw series: a value
\* above the level that all the rows within 3 positions of it share.
IsolatedPeak(xs, p) ==
  /\ p > 3 /\ p + 3 <= Len(xs)
  /\ RGt(xs[p], xs[p - 1])
  /\ \A j \in (p - 3)..(p + 3) : j # p => xs[j] = xs[p - 1]

\* C21: the series detect_patterns scans is the centered rolling mean of
\* window 3: smoothed[i] is the mean of the available values among x[i-1],
\* x[i], x[i+1], and an isolated peak of the raw series at position p is a
\* peak of the smoothed series at position p.
C21_SmoothingIsCentered ==
  op = "detect_patterns" =>
     LET xs == Analysed.col.data
         sm == smoothed_series(data, column, date_col)
     IN sm # <<>> =>
          /\ \A i \in 1..Len(xs) : sm[i] = CenteredMean(xs, i)
          /\ \A p \in 1..Len(xs) :
               IsolatedPeak(xs, p) => \E e \in {Extrema(sm, "peak")[k] : k \in 1..Len(Extrema(sm, "peak"))} : e[1] = p - 1

\* The series the scans of detect_patterns read, for a table of any length.
ScannedSeries == rolling_mean(Analysed.col.data, 3)

\* The strict local maxima (minima) of sm over a +/-2 neighbour window, as
\* 1-based positions; position i here is position i - 1 of the code.
StrictMaxima(sm) ==
  {i \in 3..(Len(sm) - 2) : \A j \in {i - 2, i - 1, i + 1, i + 2} : RGt(sm[i], sm[j])}

StrictMinima(sm) ==
  {i \in 3..(Len(sm) - 2) : \A j \in {i - 2, i - 1, i + 1, i + 2} : RLt(sm[i], sm[j])}

\* The choices of the k highest (lowest) of a set of positions of sm.
Highest(sm, ps, k) ==
  {T \in SUBSET ps : Cardinality(T) = k /\ \A i \in T, j \in ps \ T : RLe(sm[j], sm[i])}

Lowest(sm, ps, k) ==
  {T \in SUBSET ps : Cardinality(T) = k /\ \A i \in T, j \in ps \ T : RLe(sm[i], sm[j])}

First(T) == CHOOSE i \in T : \A j \in T : i <= j

Last(T) == CHOOSE i \in T : \A j \in T : j <= i

ConfAtMost90(c) ==
  c.form = "linear" /\ (c.neg \/ BCmp(c.num, BMulLimb(c.den, 90, 0)) <= 0)

\* C22: "Head and Shoulders" is in the result only if the series has at
\* least 30 observations, the smoothed series has 3 strict local maxima, the
\* middle one of the 3 highest is strictly the highest and the two outer
\* heights differ by less than 20% of their average; the confidence is
\* min((head - avg_shoulder) / avg_shoulder * 100, 90), at most 90.
C22_HeadAndShouldersOnlyIf ==
  (op = "detect_patterns" /\ "Head and Shoulders" \in Labels) =>
     LET sm == ScannedSeries
     IN /\ Len(Analysed.col.data) >= 30
        /\ ConfAtMost90(patterns["Head and Shoulders"])
        /\ \E T \in Highest(sm, StrictMaxima(sm), 3) :
             LET left  == sm[First(T)]
                 right == sm[Last(T)]
                 head  == sm[CHOOSE i \in T : i # First(T) /\ i # Last(T)]
                 avg   == RDiv(RAdd(left, right), FromInt(2))
             IN /\ RGt(head, left) /\ RGt(head, right)
                /\ RLt(RAbs(RSub(left, right)), RMul(Rat(2, 10), RAbs(avg)))
                /\ patterns["Head and Shoulders"] =
                     Percent(RMin(RMul(RDiv(RSub(head, avg), avg), FromInt(100)), FromInt(90)))

\* C23: "Double Bottom" is in the result only if the series has at least 20
\* observations, the smoothed series has 2 strict local minima, and the 2
\* lowest differ by less than 10% of their average and lie more than 5
\* positions apart; the confidence is (1 - diff / avg) * 100.
C23_DoubleBottomOnlyIf ==
  (op = "detect_patterns" /\ "Double Bottom" \in Labels) =>
     LET sm == ScannedSeries
     IN /\ Len(Analysed.col.data) >= 20
        /\ \E T \in Lowest(sm, StrictMinima(sm), 2) :
             LET gap  == RAbs(RSub(sm[First(T)], sm[Last(T)]))
                 avg  == RDiv(RAdd(sm[First(T)], sm[Last(T)]), FromInt(2))
             IN /\ RLt(gap, RMul(Rat(1, 10), RAbs(avg)))
                /\ Last(T) - First(T) > 5
                /\ patterns["Double Bottom"] =
                     Percent(RMul(RSub(FromInt(1), RDiv(gap, avg)), FromInt(100)))

\* The trend labels of the result; R^2 of the least-squares line over the
\* non-missing points exceeds 0.7, where R^2 = (T - R) / T with T and R the
\* total and residual sums of squares on a common denominator, and 0 when
\* T is 0.
TrendLabels == Labels \cap {"Upward Trend", "Downward Trend"}

RSquaredAbove70(reg) ==
  /\ reg.ss_total # <<>>
  /\ BCmp(BMulLimb(BSub(reg.ss_total, reg.ss_residual), 10, 0),
          BMulLimb(reg.ss_total, 7, 0)) = 1

ConfAbove70(c) ==
  c.form = "linear" /\ ~c.neg /\ BCmp(c.num, BMulLimb(c.den, 70, 0)) = 1

\* C24: with at least 2 non-missing points a trend label is in the result of
\* detect_patterns exactly when R^2 > 0.7; the label is "Upward Trend" when
\* the slope is positive and "Downward Trend" otherwise, and the confidence
\* is R^2 * 100, in (70, 100].
C24_TrendExactlyWhenRSquared ==
  (op = "detect_patterns" /\ IsNumeric /\ NonMissing >= 2) =>
     LET reg == Regression(Analysed.col.data)
     IN /\ (TrendLabels # {}) <=> RSquaredAbove70(reg)
        /\ \A l \in TrendLabels :
             /\ l = IF RGt(reg.slope, FromInt(0)) THEN "Upward Trend" ELSE "Downward Trend"
             /\ patterns[l] = Linear(FALSE,
                                     BMulLimb(BSub(reg.ss_total, reg.ss_residual), 100, 0),
                                     reg.ss_total)
             /\ ConfAbove70(patterns[l])
             /\ ConfInRange(patterns[l])

\* deviation < 0.5 on the non-missing values ys (integers, at least one):
\* with n values of sum S and the last k = min(10, n) of sum S10,
\* deviation^2 = (n * S10 - k * S)^2 / (k^2 * (n * sum of y^2 - S^2)),
\* and the deviation is 0 when the population std is 0.
DeviationSquared(ys) ==
  LET n   == Len(ys)
      k   == IF n < RecentLen THEN n ELSE RecentLen
      S   == SumI(ys)
      S10 == SumI(SubSeq(ys, n - k + 1, n))
      var == n * SumI(Seq1([i \in 1..n |-> ys[i] * ys[i]])) - S * S
      d   == n * S10 - k * S
  IN IF var = 0 THEN [num |-> <<>>, den |-> ToBig(1)]
     ELSE [num |-> BProd(d, d), den |-> BMul(ToBig(k * k), ToBig(var))]

ConfAbove50(c) ==
  c.form = "sqrt" /\ BCmp(BMulLimb(c.num, 4, 0), c.den) = -1

\* C25: "Mean Reversion" is in the result of detect_patterns exactly when the
\* deviation of the mean of the last 10 non-missing observations from the
\* mean of all of them, in population standard deviations (0 when the std
\* is 0), is below 0.5; the confidence is (1 - deviation) * 100, in
\* (50, 100]; this holds with a single non-missing observation too.
C25_MeanReversionExactlyWhen ==
  (op = "detect_patterns" /\ IsNumeric /\ NonMissing >= 1) =>
     LET dev == DeviationSquared(Regression(Analysed.col.data).Y)
     IN /\ ("Mean Reversion" \in Labels) <=> (BCmp(BMulLimb(dev.num, 4, 0), dev.den) = -1)
        /\ "Mean Reversion" \in Labels =>
             /\ ConfAbove50(patterns["Mean Reversion"])
             /\ ConfInRange(patterns["Mean Reversion"])
             /\ BCmp(BMul(patterns["Mean Reversion"].num, dev.den),
                     BMul(dev.num, patterns["Mean Reversion"].den)) = 0

\* The line tr is present at every row and affine in the row position, and
\* its residuals on the valid rows sum to 0, as do the residuals weighted by
\* the row position: the normal equations, which exactly the least-squares
\* line over the valid rows satisfies.
IsLeastSquaresLine(tr) ==
  LET xs == Analysed.col.data
      vp == ValidPos(xs, Len(xs))
  IN /\ \A i \in 1..Len(tr) : ~IsNaN(tr[i])
     /\ \A i \in 1..(Len(tr) - 2) : RSub(tr[i + 2], tr[i + 1]) = RSub(tr[i + 1], tr[i])
     /\ SumR(Seq1([k \in 1..Len(vp) |-> RSub(xs[vp[k]], tr[vp[k]])])) = FromInt(0)
     /\ SumR(Seq1([k \in 1..Len(vp) |->
                     RMul(FromInt(vp[k] - 1), RSub(xs[vp[k]], tr[vp[k]]))])) = FromInt(0)

\* C26: the trend column is entirely missing with fewer than 2 non-missing
\* points; otherwise it holds, at every row, rows with a missing value
\* included, the least-squares line of value against row position fitted
\* over the non-missing points.
C26_TrendColumn ==
  Analysis =>
     /\ Len(Indicator("trend")) = Len(Analysed.col.data)
     /\ NonMissing < 2 => \A i \in 1..Len(Indicator("trend")) : IsNaN(Indicator("trend")[i])
     /\ NonMissing >= 2 => IsLeastSquaresLine(Indicator("trend"))

C26_Witness ==
  /\ Analysis
  /\ Len(Analysed.col.data) = MaxLen
  /\ NonMissing = MaxLen - 1
  /\ IsNaN(Analysed.col.data[2])
  /\ Analysed.col.data[1] # Analysed.col.data[MaxLen]
  /\ ~IsNaN(Indicator("trend")[2])

\* e[t] of the recurrence e[1] = x[1], e[t] = e[t-1] + a * (x[t] - e[t-1]).
RECURSIVE SmoothingWith(_, _, _)
SmoothingWith(a, x, t) ==
  IF t = 1 THEN x[1]
  ELSE LET prev == SmoothingWith(a, x, t - 1)
       IN RAdd(prev, RMul(a, RSub(x[t], prev)))

\* e lies between the minimum and the maximum of x[1..t].
WithinPrefix(e, x, t) ==
  /\ \E i \in 1..t : RLe(x[i], e)
  /\ \E i \in 1..t : RLe(e, x[i])

NoMissing == IsNumeric /\ NonMissing = Len(Analysed.col.data)

\* C27: for a series without missing values EMA7 and EMA14 follow the
\* recurrence with a = 1/4 and a = 2/15, the forecast is the last value of
\* the recurrence with a = 3/10, and each such value lies between the
\* minimum and the maximum of the observations up to its position.
C27_SameRecurrence ==
  LET xs == Analysed.col.data
  IN /\ (Analysis /\ NoMissing) =>
          \A t \in 1..Len(xs) :
             /\ Indicator("EMA7")[t] = SmoothingWith(Rat(1, 4), xs, t)
             /\ Indicator("EMA14")[t] = SmoothingWith(Rat(2, 15), xs, t)
             /\ WithinPrefix(Indicator("EMA7")[t], xs, t)
             /\ WithinPrefix(Indicator("EMA14")[t], xs, t)
     /\ (op = "predict_future_values" /\ NoMissing /\ Len(xs) >= 3) =>
          \A i \in 1..periods :
             /\ frame.cols[1].data[i] = SmoothingWith(Rat(3, 10), xs, Len(xs))
             /\ WithinPrefix(frame.cols[1].data[i], xs, Len(xs))

C27_Witness ==
  /\ Analysis
  /\ NoMissing
  /\ Len(Analysed.col.data) = MaxLen
  /\ RLt(Analysed.col.data[1], Analysed.col.data[2])
  /\ RLt(Indicator("EMA14")[MaxLen], Indicator("EMA7")[MaxLen])
  /\ RLt(Analysed.col.data[1], Indicator("EMA14")[2])

\* MACD is EMA14 - EMA7 at every row, and MACD_signal the span-9 EMA of
\* MACD, starting at MACD[1].
MACDAsDefined ==
  /\ \A t \in 1..Len(Indicator("MACD")) :
        Indicator("MACD")[t] = RSub(Indicator("EMA14")[t], Indicator("EMA7")[t])
  /\ Indicator("MACD_signal") = ewm_mean(Indicator("MACD"), Rat(2, 10))
  /\ Indicator("MACD_signal")[1] = Indicator("MACD")[1]
  /\ NoMissing => \A t \in 1..Len(Indicator("MACD")) :
        Indicator("MACD_signal")[t] = SmoothingWith(Rat(2, 10), Indicator("MACD"), t)

MACDOfRisingSeries ==
  StrictlyIncreasing =>
     \A t \in 1..Len(Indicator("MACD")) : RLe(Indicator("MACD")[t], FromInt(0))

\* C28 as stated: MACD = EMA14 - EMA7, MACD_signal is the span-9 EMA of MACD
\* starting at MACD[0], MACD[0] = 0 and MACD_signal[0] = 0 for every
\* series, and MACD <= 0 on a strictly increasing series.
C28_MACDStartsAtZero ==
  (Analysis /\ Len(Analysed.col.data) >= 1) =>
     /\ MACDAsDefined
     /\ Indicator("MACD")[1] = FromInt(0)
     /\ Indicator("MACD_signal")[1] = FromInt(0)
     /\ MACDOfRisingSeries

\* C28: MACD = EMA14 - EMA7 at every row, MACD_signal is the span-9 EMA of
\* MACD starting at MACD[0]; MACD[0] and MACD_signal[0] are 0 for every
\* series whose first value is present and missing otherwise; MACD <= 0 on
\* a strictly increasing series.
C28_MACDStartsAtZeroIfPresent ==
  (Analysis /\ Len(Analysed.col.data) >= 1) =>
     /\ MACDAsDefined
     /\ IF IsNaN(Analysed.col.data[1])
        THEN IsNaN(Indicator("MACD")[1]) /\ IsNaN(Indicator("MACD_signal")[1])
        ELSE Indicator("MACD")[1] = FromInt(0) /\ Indicator("MACD_signal")[1] = FromInt(0)
     /\ MACDOfRisingSeries

C28_Witness ==
  /\ Analysis
  /\ StrictlyIncreasing
  /\ Len(Analysed.col.data) = MaxLen
  /\ Indicator("MACD")[1] = FromInt(0)
  /\ RLt(Indicator("MACD")[MaxLen], FromInt(0))
  /\ RLt(Indicator("MACD_signal")[MaxLen], FromInt(0))

\* C29: in every row of every non-empty forecast,
\* lower bound <= point forecast <= upper bound.
C29_BoundsOrdered ==
  (op = "predict_future_values" /\ Len(frame.index) > 0) =>
     \A i \in 1..Len(frame.index) :
        /\ RLe(frame.cols[2].data[i], frame.cols[1].data[i])
        /\ RLe(frame.cols[1].data[i], frame.cols[3].data[i])

\* The 14 rows ending at row t, fewer near the start, hold a negative delta:
\* a value below the value of the row before it.
NegativeDeltaIn(t) ==
  \E i \in (IF t > 14 THEN t - 13 ELSE 1)..t :
     i > 1 /\ RLt(Analysed.col.data[i], Analysed.col.data[i - 1])

NonDecreasing ==
  \A i \in 1..(Len(Analysed.col.data) - 1) :
     RLe(Analysed.col.data[i], Analysed.col.data[i + 1])

====
